---- MODULE Spec2Model ----
(***************************************************************************)
(* The Pratt parser of go-preter (src/parser/parser.go, lines 1-299) with  *)
(* the AST nodes of src/ast/ast.go.  The parser reads a token stream       *)
(* through a two-token window (curToken, peekToken); ParseProgram loops    *)
(* over statements until curToken is EOF.                                  *)
(*                                                                         *)
(* Text (token literals, operators) is a sequence of one-character         *)
(* strings; a 64-bit integer value is its canonical decimal digit          *)
(* sequence, so that values up to 2^63-1 are exact.                        *)
(***************************************************************************)
EXTENDS Integers, Sequences, FiniteSets, TLC

VARIABLES
    tokens,      \* the token stream the lexer delivers, without the final EOF
    l,           \* the lexer: one more than the number of tokens it has delivered
    curToken,    \* Parser.curToken
    peekToken,   \* Parser.peekToken
    errors,      \* Parser.errors
    statements,  \* program.Statements of the running ParseProgram
    stmt,        \* the statement parseStatement is building / has returned
    pc,          \* position in New / ParseProgram / parseStatement
    first        \* the first parse, once its Program's text is parsed again

vars == <<tokens, l, curToken, peekToken, errors, statements, stmt, pc, first>>

----------------------------------------------------------------------------
(* Bounds of the model *)

MaxLen == 3           \* longest arbitrary token sequence
MaxStmts == 3         \* most statements in a let / return program
MaxOperands == 4      \* most operands of a flat binary-operator chain
MaxPrefixOperands == 2 \* most operands of a chain whose operands carry prefixes
MaxPastEOF == 3       \* most requests counted after the lexer has delivered EOF

----------------------------------------------------------------------------
(* Tokens *)

Tok(t, lit) == [Type |-> t, Literal |-> lit]

ZeroToken == Tok("", <<>>)
EOFToken == Tok("EOF", <<>>)
LetTok == Tok("LET", <<"l", "e", "t">>)
ReturnTok == Tok("RETURN", <<"r", "e", "t", "u", "r", "n">>)
AssignTok == Tok("ASSIGN", <<"=">>)
SemicolonTok == Tok("SEMICOLON", <<";">>)
PlusTok == Tok("PLUS", <<"+">>)
MinusTok == Tok("MINUS", <<"-">>)
BangTok == Tok("BANG", <<"!">>)
AsteriskTok == Tok("ASTERISK", <<"*">>)
SlashTok == Tok("SLASH", <<"/">>)
LtTok == Tok("LT", <<"<">>)
GtTok == Tok("GT", <<">">>)
EqTok == Tok("EQ", <<"=", "=">>)
NotEqTok == Tok("NOT_EQ", <<"!", "=">>)
TrueTok == Tok("TRUE", <<"t", "r", "u", "e">>)
FalseTok == Tok("FALSE", <<"f", "a", "l", "s", "e">>)
LparenTok == Tok("LPAREN", <<"(">>)
RparenTok == Tok("RPAREN", <<")">>)
IfTok == Tok("IF", <<"i", "f">>)
ElseTok == Tok("ELSE", <<"e", "l", "s", "e">>)
LbraceTok == Tok("LBRACE", <<"{">>)
RbraceTok == Tok("RBRACE", <<"}">>)
IdentTok(name) == Tok("IDENT", name)
IntTok(text) == Tok("INT", text)

----------------------------------------------------------------------------
(* Precedences *)

LOWEST == 1
EQUALS == 2
LESSGREATER == 3
SUM == 4
PRODUCT == 5
PREFIX == 6
CALL == 7

\* a slip in the table: + is given the level of *
precedencesPlusAsProduct ==
    [t \in {"EQ", "NOT_EQ", "LT", "GT", "PLUS", "MINUS", "SLASH", "ASTERISK"} |->
        CASE t \in {"EQ", "NOT_EQ"} -> EQUALS
          [] t \in {"LT", "GT"} -> LESSGREATER
          [] t \in {"MINUS"} -> SUM
          [] t \in {"PLUS", "SLASH", "ASTERISK"} -> PRODUCT]

precedences ==
    [t \in {"EQ", "NOT_EQ", "LT", "GT", "PLUS", "MINUS", "SLASH", "ASTERISK"} |->
        CASE t \in {"EQ", "NOT_EQ"} -> EQUALS
          [] t \in {"LT", "GT"} -> LESSGREATER
          [] t \in {"PLUS", "MINUS"} -> SUM
          [] t \in {"SLASH", "ASTERISK"} -> PRODUCT]

\* New: the kinds registered with registerPrefix / registerInflix
prefixParseFns ==
    [t \in {"IDENT", "INT", "BANG", "MINUS", "TRUE", "FALSE"} |->
        CASE t = "IDENT" -> "parseIdentifier"
          [] t = "INT" -> "parseIntegerLiteral"
          [] t \in {"BANG", "MINUS"} -> "parsePrefixExpression"
          [] t \in {"TRUE", "FALSE"} -> "parseBoolean"]

\* the registration of / is forgotten
inflixParseFnsWithoutSlash ==
    [t \in {"EQ", "NOT_EQ", "LT", "GT", "PLUS", "MINUS", "ASTERISK"} |->
        "parseInfixExpression"]

inflixParseFns ==
    [t \in {"EQ", "NOT_EQ", "LT", "GT", "PLUS", "MINUS", "SLASH", "ASTERISK"} |->
        "parseInfixExpression"]

----------------------------------------------------------------------------
(* strconv.ParseInt(s, 0, 64) on the text of an INT token *)

DigitChars == <<"0", "1", "2", "3", "4", "5", "6", "7", "8", "9">>

\* the value of a digit character, 10 for any other character
DigitVal(c) ==
    IF \E d \in 1..10 : DigitChars[d] = c
    THEN (CHOOSE d \in 1..10 : DigitChars[d] = c) - 1
    ELSE 10

\* 2^63 - 1
MaxInt64 == <<9, 2, 2, 3, 3, 7, 2, 0, 3, 6, 8, 5, 4, 7, 7, 5, 8, 0, 7>>

RECURSIVE DigitsLess(_, _)
\* a < b for digit sequences of the same length
DigitsLess(a, b) ==
    IF a = <<>> THEN FALSE
    ELSE IF Head(a) # Head(b) THEN Head(a) < Head(b)
    ELSE DigitsLess(Tail(a), Tail(b))

RECURSIVE StripZeros(_)
StripZeros(d) ==
    IF Len(d) > 1 /\ Head(d) = 0 THEN StripZeros(Tail(d)) ELSE d

\* d > 2^63 - 1 for a digit sequence without leading zeros
ExceedsInt64(d) ==
    \/ Len(d) > Len(MaxInt64)
    \/ Len(d) = Len(MaxInt64) /\ DigitsLess(MaxInt64, d)

RECURSIVE ToDecimal(_)
ToDecimal(n) ==
    IF n < 10 THEN <<n>> ELSE Append(ToDecimal(n \div 10), n % 10)

RECURSIVE OctalValue(_, _)
\* the number written by the octal digits d, after the digits read so far gave acc
OctalValue(d, acc) ==
    IF d = <<>> THEN acc ELSE OctalValue(Tail(d), acc * 8 + Head(d))

\* out is 0 on a syntax error and the largest int64 on a range error.
\* Octal texts are taken to be short enough for their value to fit.
ParseInt(s) ==
    LET octal == Len(s) > 1 /\ s[1] = "0"
        body == IF octal THEN Tail(s) ELSE s
        base == IF octal THEN 8 ELSE 10
        digits == [i \in 1..Len(body) |-> DigitVal(body[i])]
    IN  IF s = <<>> \/ \E i \in 1..Len(body) : digits[i] >= base
        THEN [out |-> <<0>>, err |-> "syntax"]
        ELSE IF octal
        THEN [out |-> ToDecimal(OctalValue(digits, 0)), err |-> "nil"]
        ELSE IF ExceedsInt64(StripZeros(digits))
        THEN [out |-> MaxInt64, err |-> "range"]
        ELSE [out |-> StripZeros(digits), err |-> "nil"]

----------------------------------------------------------------------------
(* AST nodes *)

\* a nil interface value, and a nil pointer of a node type held in an interface
Nil == [node |-> "nil", type |-> ""]

TypedNil(type) == [node |-> "nil", type |-> type]

Identifier(tok) == [node |-> "Identifier", Token |-> tok, Value |-> tok.Literal]

IntegerLiteral(tok, value) ==
    [node |-> "IntegerLiteral", Token |-> tok, Value |-> value]

Boolean(tok, value) == [node |-> "Boolean", Token |-> tok, Value |-> value]

PrefixExpression(tok, right) ==
    [node |-> "PrefixExpression", Token |-> tok, Operator |-> tok.Literal,
     Right |-> right]

InfixExpression(tok, left, right) ==
    [node |-> "InfixExpression", Token |-> tok, Left |-> left,
     Operator |-> tok.Literal, Right |-> right]

LetStatement(tok, name, value) ==
    [node |-> "LetStatement", Token |-> tok, Name |-> name, Value |-> value]

ReturnStatement(tok, value) ==
    [node |-> "ReturnStatement", Token |-> tok, ReturnValue |-> value]

ExpressionStatement(tok, expression) ==
    [node |-> "ExpressionStatement", Token |-> tok, Expression |-> expression]

BlockStatement(tok, stmts) ==
    [node |-> "BlockStatement", Token |-> tok, Statements |-> stmts]

IfExpression(tok, condition, consequence, alternative) ==
    [node |-> "IfExpression", Token |-> tok, Condition |-> condition,
     Consequence |-> consequence, Alternative |-> alternative]

\* Node.TokenLiteral
TokenLiteral(n) == n.Token.Literal

----------------------------------------------------------------------------
(* Node.String: the canonical text of a node.  A call gives
   [panic |-> FALSE, out |-> the text], or panics when it dereferences nil. *)

Text(out) == [panic |-> FALSE, out |-> out]

Panics == [panic |-> TRUE, out |-> <<>>]

RECURSIVE JoinFrom(_, _)
\* the texts of parts[i..] written one after the other
JoinFrom(parts, i) ==
    IF i > Len(parts) THEN <<>> ELSE parts[i].out \o JoinFrom(parts, i + 1)

\* bytes.Buffer: the parts written in order; a part that panics ends the call
Join(parts) ==
    CHOOSE r \in {IF \E i \in 1..Len(ps) : ps[i].panic
                  THEN Panics ELSE Text(JoinFrom(ps, 1)) : ps \in {parts}} : TRUE

RECURSIVE String(_)
String(n) ==
    CASE n.node = "nil" -> Panics
      [] n.node = "Identifier" -> Text(n.Value)
      [] n.node = "IntegerLiteral" -> Text(n.Token.Literal)
      [] n.node = "Boolean" -> Text(n.Token.Literal)
      [] n.node = "PrefixExpression" ->
            Join(<<Text(<<"(">>), Text(n.Operator), String(n.Right),
                   Text(<<")">>)>>)
      [] n.node = "InfixExpression" ->
            Join(<<Text(<<"(">>), String(n.Left),
                   Text(<<" ">> \o n.Operator \o <<" ">>), String(n.Right),
                   Text(<<")">>)>>)
      [] n.node = "LetStatement" ->
            Join(<<Text(TokenLiteral(n) \o <<" ">>), String(n.Name),
                   Text(<<" ", "=", " ">>),
                   IF n.Value # Nil THEN String(n.Value) ELSE Text(<<>>),
                   Text(<<";">>)>>)
      [] n.node = "ReturnStatement" ->
            Join(<<Text(TokenLiteral(n) \o <<" ">>),
                   IF n.ReturnValue # Nil THEN String(n.ReturnValue)
                                          ELSE Text(<<>>),
                   Text(<<";">>)>>)
      [] n.node = "ExpressionStatement" ->
            IF n.Expression # Nil THEN String(n.Expression) ELSE Text(<<>>)
      [] n.node = "BlockStatement" ->
            Join([i \in 1..Len(n.Statements) |-> String(n.Statements[i])])
      [] n.node = "IfExpression" ->
            Join(<<Text(<<"i", "f">>), String(n.Condition), Text(<<" ">>),
                   String(n.Consequence),
                   IF n.Alternative # Nil
                   THEN Join(<<Text(<<"e", "l", "s", "e">>),
                               String(n.Alternative)>>)
                   ELSE Text(<<>>)>>)

\* Program.String, on the statements of the Program
ProgramString(stmts) ==
    Join([i \in 1..Len(stmts) |-> String(stmts[i])])

----------------------------------------------------------------------------
(* The lexer, seen from the parser: it delivers the tokens in order and then
   EOF for ever.  Its position is the number of tokens it has delivered, plus
   one; the requests made after EOF has been delivered are counted up to
   MaxPastEOF. *)

NextToken(pos) == IF pos <= Len(tokens) THEN tokens[pos] ELSE EOFToken

LexerAdvance(pos) ==
    IF pos < Len(tokens) + 2 + MaxPastEOF THEN pos + 1 ELSE pos

\* lexer.New(input): the tokens of a text
Letters ==
    {"a", "b", "c", "d", "e", "f", "g", "h", "i", "j", "k", "l", "m", "n", "o",
     "p", "q", "r", "s", "t", "u", "v", "w", "x", "y", "z", "_",
     "A", "B", "C", "D", "E", "F", "G", "H", "I", "J", "K", "L", "M", "N", "O",
     "P", "Q", "R", "S", "T", "U", "V", "W", "X", "Y", "Z"}

Digits == {DigitChars[d] : d \in 1..10}

Whitespace == {" ", "\t", "\n", "\r"}

\* the kind of a word: a keyword or an identifier
LookupIdent(word) ==
    CASE word = <<"l", "e", "t">> -> "LET"
      [] word = <<"r", "e", "t", "u", "r", "n">> -> "RETURN"
      [] word = <<"t", "r", "u", "e">> -> "TRUE"
      [] word = <<"f", "a", "l", "s", "e">> -> "FALSE"
      [] word = <<"i", "f">> -> "IF"
      [] word = <<"e", "l", "s", "e">> -> "ELSE"
      [] word = <<"f", "n">> -> "FUNCTION"
      [] OTHER -> "IDENT"

\* the kind of a token of one character
CharType(ch) ==
    CASE ch = "=" -> "ASSIGN"
      [] ch = "+" -> "PLUS"
      [] ch = "-" -> "MINUS"
      [] ch = "!" -> "BANG"
      [] ch = "*" -> "ASTERISK"
      [] ch = "/" -> "SLASH"
      [] ch = "<" -> "LT"
      [] ch = ">" -> "GT"
      [] ch = ";" -> "SEMICOLON"
      [] ch = "," -> "COMMA"
      [] ch = "(" -> "LPAREN"
      [] ch = ")" -> "RPAREN"
      [] ch = "{" -> "LBRACE"
      [] ch = "}" -> "RBRACE"
      [] OTHER -> "ILLEGAL"

RECURSIVE Run(_, _)
\* the longest prefix of text made of characters of S
Run(text, S) ==
    IF text # <<>> /\ Head(text) \in S
    THEN <<Head(text)>> \o Run(Tail(text), S)
    ELSE <<>>

Drop(text, n) == SubSeq(text, n + 1, Len(text))

RECURSIVE Lex(_)
\* the tokens of a text, without the final EOF
Lex(text) ==
    IF text = <<>> THEN <<>>
    ELSE IF Head(text) \in Whitespace THEN Lex(Tail(text))
    ELSE IF Head(text) \in Letters
    THEN <<Tok(LookupIdent(Run(text, Letters)), Run(text, Letters))>>
            \o Lex(Drop(text, Len(Run(text, Letters))))
    ELSE IF Head(text) \in Digits
    THEN <<Tok("INT", Run(text, Digits))>>
            \o Lex(Drop(text, Len(Run(text, Digits))))
    ELSE IF Len(text) > 1 /\ Head(text) = "=" /\ text[2] = "="
    THEN <<EqTok>> \o Lex(Drop(text, 2))
    ELSE IF Len(text) > 1 /\ Head(text) = "!" /\ text[2] = "="
    THEN <<NotEqTok>> \o Lex(Drop(text, 2))
    ELSE <<Tok(CharType(Head(text)), <<Head(text)>>)>> \o Lex(Tail(text))

----------------------------------------------------------------------------
(* Parser methods, on the parser record p = [l, curToken, peekToken, errors] *)

Parser == [l |-> l, curToken |-> curToken, peekToken |-> peekToken,
           errors |-> errors]

\* the two assignments in the other order: current gets the new token too
nextTokenPeekFirst(p) ==
    [p EXCEPT !.curToken = NextToken(p.l),
              !.peekToken = NextToken(p.l),
              !.l = LexerAdvance(p.l)]

nextToken(p) ==
    [p EXCEPT !.curToken = p.peekToken,
              !.peekToken = NextToken(p.l),
              !.l = LexerAdvance(p.l)]

curTokenIs(p, t) == p.curToken.Type = t

peekTokenIs(p, t) == p.peekToken.Type = t

\* "Expected token %s -- Got %s"
peekError(p, t) ==
    [p EXCEPT !.errors = Append(p.errors,
        [kind |-> "peekError", expected |-> t, got |-> p.peekToken.Type])]

\* the token without prefix routine is also stepped over
noPrefixParseFnErrorAdvances(p, t) ==
    nextToken([p EXCEPT !.errors = Append(p.errors,
        [kind |-> "noPrefixParseFn", type |-> t])])

\* "no prefix parse function for %s found"
noPrefixParseFnError(p, t) ==
    [p EXCEPT !.errors = Append(p.errors,
        [kind |-> "noPrefixParseFn", type |-> t])]

\* expectPeek that advances whatever the peek token is
expectPeekAlwaysAdvances(p, t) ==
    IF peekTokenIs(p, t)
    THEN [p |-> nextToken(p), ok |-> TRUE]
    ELSE [p |-> nextToken(peekError(p, t)), ok |-> FALSE]

\* the parser after the call, and the value returned
expectPeek(p, t) ==
    IF peekTokenIs(p, t)
    THEN [p |-> nextToken(p), ok |-> TRUE]
    ELSE [p |-> peekError(p, t), ok |-> FALSE]

peekPrecedence(p) ==
    IF p.peekToken.Type \in DOMAIN precedences
    THEN precedences[p.peekToken.Type]
    ELSE LOWEST

curPrecedence(p) ==
    IF p.curToken.Type \in DOMAIN precedences
    THEN precedences[p.curToken.Type]
    ELSE LOWEST

\* the element of a one-element set: The({F(r) : r \in {v}}) is F(v), with v
\* evaluated once
The(S) == CHOOSE y \in S : TRUE

\* every expression routine gives [p |-> the parser after the call, e |-> the node]
parseIdentifier(p) == [p |-> p, e |-> Identifier(p.curToken)]

\* "failed to parse %q to integer"
parseIntegerLiteral(p) ==
    The({[p |-> IF r.err # "nil"
                THEN [p EXCEPT !.errors = Append(p.errors,
                         [kind |-> "parseInt", literal |-> p.curToken.Literal])]
                ELSE p,
          e |-> IntegerLiteral(p.curToken, r.out)] :
         r \in {ParseInt(p.curToken.Literal)}})

parseBoolean(p) == [p |-> p, e |-> Boolean(p.curToken, curTokenIs(p, "TRUE"))]

RECURSIVE parseExpression(_, _)
RECURSIVE parseExpressionLoop(_, _, _)
RECURSIVE parsePrefixExpression(_)
RECURSIVE parseInfixExpression(_, _)

\* the operand of a prefix operator parsed at LOWEST
parsePrefixExpressionAtLowest(p) ==
    The({[p |-> r.p, e |-> PrefixExpression(p.curToken, r.e)] :
         r \in {parseExpression(nextToken(p), LOWEST)}})

\* the operand of a prefix operator is parsed at PREFIX
parsePrefixExpression(p) ==
    The({[p |-> r.p, e |-> PrefixExpression(p.curToken, r.e)] :
         r \in {parseExpression(nextToken(p), PREFIX)}})

\* the right operand parsed one level lower: operators group to the right
parseInfixExpressionRightAssoc(p, left) ==
    The({[p |-> r.p, e |-> InfixExpression(p.curToken, left, r.e)] :
         r \in {parseExpression(nextToken(p), curPrecedence(p) - 1)}})

\* the right operand is parsed at the operator's own precedence
parseInfixExpression(p, left) ==
    The({[p |-> r.p, e |-> InfixExpression(p.curToken, left, r.e)] :
         r \in {parseExpression(nextToken(p), curPrecedence(p))}})

\* the for loop of parseExpression, entered with the left expression so far
parseExpressionLoop(p, left, precedence) ==
    IF ~peekTokenIs(p, "SEMICOLON") /\ precedence < peekPrecedence(p)
    THEN IF p.peekToken.Type \notin DOMAIN inflixParseFns
         THEN [p |-> p, e |-> left]
         ELSE The({parseExpressionLoop(r.p, r.e, precedence) :
                   r \in {parseInfixExpression(nextToken(p), left)}})
    ELSE [p |-> p, e |-> left]

\* the prefix routine registered for the current token, applied
prefix(p) ==
    CASE prefixParseFns[p.curToken.Type] = "parseIdentifier" ->
            parseIdentifier(p)
      [] prefixParseFns[p.curToken.Type] = "parseIntegerLiteral" ->
            parseIntegerLiteral(p)
      [] prefixParseFns[p.curToken.Type] = "parseBoolean" ->
            parseBoolean(p)
      [] prefixParseFns[p.curToken.Type] = "parsePrefixExpression" ->
            parsePrefixExpression(p)

parseExpression(p, precedence) ==
    IF p.curToken.Type \notin DOMAIN prefixParseFns
    THEN [p |-> noPrefixParseFnError(p, p.curToken.Type), e |-> Nil]
    ELSE The({parseExpressionLoop(r.p, r.e, precedence) : r \in {prefix(p)}})

\* the ; after the expression is left where it is
parseExpressionStatementKeepsSemicolon(p) ==
    The({[p |-> r.p, s |-> ExpressionStatement(p.curToken, r.e)] :
         r \in {parseExpression(p, LOWEST)}})

\* [p |-> the parser after the call, s |-> the statement]
parseExpressionStatement(p) ==
    The({[p |-> IF peekTokenIs(r.p, "SEMICOLON") THEN nextToken(r.p) ELSE r.p,
          s |-> ExpressionStatement(p.curToken, r.e)] :
         r \in {parseExpression(p, LOWEST)}})

----------------------------------------------------------------------------
(* The inputs: token streams of the forms the parser is used on *)

RECURSIVE SeqsUpTo(_, _)
\* the sequences over S of length at most n
SeqsUpTo(S, n) ==
    IF n = 0 THEN {<<>>}
    ELSE LET shorter == SeqsUpTo(S, n - 1)
         IN  shorter \cup {Append(q, x) : q \in shorter, x \in S}

RECURSIVE Flatten(_)
Flatten(ss) == IF ss = <<>> THEN <<>> ELSE Head(ss) \o Flatten(Tail(ss))

\* one to n pieces of S, concatenated
Programs(S, n) == {Flatten(ss) : ss \in SeqsUpTo(S, n) \ {<<>>}}

IdentNames == {<<"x">>, <<"y">>}

IntTexts == {<<"5">>, <<"1", "0">>, <<"0", "1", "0">>, <<"0", "8">>,
             <<"9", "2", "2", "3", "3", "7", "2", "0", "3", "6",
               "8", "5", "4", "7", "7", "5", "8", "0", "8">>}

LetInts == {<<"5">>, <<"0", "8">>}

BinaryOps == {EqTok, NotEqTok, LtTok, GtTok, PlusTok, MinusTok, SlashTok,
              AsteriskTok}

Alphabet == {LetTok, ReturnTok, IdentTok(<<"x">>), IntTok(<<"5">>), AssignTok,
             SemicolonTok, PlusTok, MinusTok, AsteriskTok, BangTok, EqTok,
             TrueTok, LparenTok}

ShortInputs == SeqsUpTo(Alphabet, MaxLen)

\* let <ident> = <int>;   and   let <ident> = <int>
LetSemi(name, text) ==
    <<LetTok, IdentTok(name), AssignTok, IntTok(text), SemicolonTok>>

LetNoSemi(name, text) == <<LetTok, IdentTok(name), AssignTok, IntTok(text)>>

LetSemiInputs ==
    Programs({LetSemi(n, t) : n \in IdentNames, t \in LetInts}, MaxStmts)

LetNoSemiInputs ==
    Programs({LetNoSemi(n, t) : n \in IdentNames, t \in LetInts}, MaxStmts)

\* let <ident> = a op b;
LetExprInputs ==
    {<<LetTok, IdentTok(n), AssignTok, IntTok(<<"5">>), op, IdentTok(<<"y">>)>> \o e :
        n \in IdentNames, op \in BinaryOps, e \in {<<>>, <<SemicolonTok>>}}

\* return <expr>;   and   return <expr>
ReturnExprs == {<<IntTok(<<"5">>)>>, <<IdentTok(<<"x">>)>>,
                <<IntTok(<<"5">>), PlusTok, IdentTok(<<"x">>)>>,
                <<MinusTok, IntTok(<<"1", "0">>)>>}

ReturnSemiInputs ==
    Programs({<<ReturnTok>> \o e \o <<SemicolonTok>> : e \in ReturnExprs}, MaxStmts)

ReturnNoSemiInputs == {<<ReturnTok>> \o e : e \in ReturnExprs}

\* the operand at position i of a flat chain: a, 1, b, 2, c, 3, ...
OperandNames == <<"a", "b", "c", "d", "e", "f">>

OperandAt(i) ==
    IF i % 2 = 1
    THEN IdentTok(<<OperandNames[(((i - 1) \div 2) % Len(OperandNames)) + 1]>>)
    ELSE IntTok(<<DigitChars[((i \div 2) % 9) + 2]>>)

RECURSIVE Chain(_)
\* operand 1, ops[1], operand 2, ..., ops[n], operand n + 1
Chain(ops) ==
    IF ops = <<>> THEN <<OperandAt(1)>>
    ELSE Chain(SubSeq(ops, 1, Len(ops) - 1))
            \o <<ops[Len(ops)], OperandAt(Len(ops) + 1)>>

ChainInputs ==
    {Chain(ops) \o e : ops \in SeqsUpTo(BinaryOps, MaxOperands - 1),
                       e \in {<<>>, <<SemicolonTok>>}}

\* chains whose operands carry prefix operators
PrefixOps == {<<>>, <<MinusTok>>, <<BangTok>>, <<BangTok, MinusTok>>}

RECURSIVE PrefixChain(_, _)
PrefixChain(pres, ops) ==
    IF ops = <<>> THEN pres[1] \o <<OperandAt(1)>>
    ELSE PrefixChain(pres, SubSeq(ops, 1, Len(ops) - 1))
            \o <<ops[Len(ops)]>> \o pres[Len(ops) + 1]
            \o <<OperandAt(Len(ops) + 1)>>

PrefixChainInputs ==
    UNION {{PrefixChain(pres, ops) : pres \in [1..n -> PrefixOps],
                                     ops \in [1..(n - 1) -> BinaryOps]} :
           n \in 1..MaxPrefixOperands}

\* L op R;
InfixInputs ==
    {<<IntTok(a), op, IntTok(b), SemicolonTok>> :
        a \in IntTexts, op \in BinaryOps, b \in IntTexts}

\* the inputs of TestOperatorPrecedenceParsing that are longer than the chains above
A == IdentTok(<<"a">>)
B == IdentTok(<<"b">>)
C == IdentTok(<<"c">>)
D == IdentTok(<<"d">>)
E == IdentTok(<<"e">>)
F == IdentTok(<<"f">>)
N(c) == IntTok(<<c>>)

TestInputs ==
    {<<A, PlusTok, B, AsteriskTok, C, PlusTok, D, SlashTok, E, MinusTok, F>>,
     <<N("3"), PlusTok, N("4"), SemicolonTok, MinusTok, N("5"), AsteriskTok, N("5")>>,
     <<N("3"), PlusTok, N("4"), AsteriskTok, N("5"), EqTok,
       N("3"), AsteriskTok, N("1"), PlusTok, N("4"), AsteriskTok, N("5")>>}

\* short expressions: an operand, a op 1 for every operator, -5 * 5, !a
SmallExprs ==
    {Chain(ops) : ops \in SeqsUpTo(BinaryOps, 1)}
        \cup {<<MinusTok, N("5"), AsteriskTok, N("5")>>, <<BangTok, A>>}

\* tokens of kinds for which New registers no prefix routine and that do not
\* start a let or return statement
NoPrefixToks == {LparenTok, RparenTok, AssignTok, IfTok, LbraceTok, AsteriskTok}

\* a token without prefix routine in the lead position, then an expression
NoPrefixInputs ==
    {<<t>> \o e \o s \o f : t \in NoPrefixToks, e \in {<<>>, <<SemicolonTok>>},
                            s \in SmallExprs \cup {<<>>},
                            f \in {<<>>, <<SemicolonTok>>}}

\* E1; E2  and  E1 T E2  for a token T that is not in the precedence table
TwoExprInputs ==
    {e1 \o t \o e2 : e1 \in SmallExprs, e2 \in SmallExprs,
                     t \in {<<SemicolonTok>>, <<RparenTok>>, <<AssignTok>>, <<>>}}

\* let <ident> <int>;  followed by well-formed statements
Followers ==
    {<<>>, LetNoSemi(<<"y">>, <<"5">>),
     <<ReturnTok, IdentTok(<<"x">>), SemicolonTok>>,
     <<IdentTok(<<"y">>), PlusTok, IntTok(<<"5">>), SemicolonTok>>,
     <<IdentTok(<<"y">>), SemicolonTok, ReturnTok, IntTok(<<"5">>), SemicolonTok>>}

LetNoAssignInputs ==
    {<<LetTok, IdentTok(n), IntTok(<<"5">>)>> \o e \o f :
        n \in IdentNames, e \in {<<>>, <<SemicolonTok>>}, f \in Followers}

\* ( E ),  ( E ) op c,  c op ( E )  and  ( E  without the closing parenthesis
GroupInputs ==
    {<<LparenTok>> \o e \o r \o f : e \in SmallExprs,
        r \in {<<RparenTok>>, <<>>},
        f \in {<<>>, <<SemicolonTok>>, <<AsteriskTok, C>>}}
        \cup {<<C, AsteriskTok, LparenTok>> \o e \o <<RparenTok>> :
                e \in SmallExprs}

\* if (C) { S1 }  and  if (C) { S1 } else { S2 }
Conditions == {<<IdentTok(<<"x">>)>>,
               <<IdentTok(<<"x">>), LtTok, IdentTok(<<"y">>)>>}

Blocks == {<<LbraceTok, IdentTok(n), RbraceTok>> : n \in IdentNames}
            \cup {<<LbraceTok, IdentTok(<<"x">>), SemicolonTok, RbraceTok>>}

IfInputs ==
    {<<IfTok, LparenTok>> \o c \o <<RparenTok>> \o b \o e :
        c \in Conditions, b \in Blocks,
        e \in {<<>>} \cup {<<ElseTok>> \o a : a \in Blocks}}

\* an integer literal as a statement
IntInputs ==
    {<<IntTok(t)>> \o e : t \in IntTexts, e \in {<<>>, <<SemicolonTok>>}}

Inputs ==
    ShortInputs \cup LetSemiInputs \cup LetNoSemiInputs \cup LetExprInputs
        \cup ReturnSemiInputs \cup ReturnNoSemiInputs \cup ChainInputs
        \cup PrefixChainInputs \cup InfixInputs \cup TestInputs
        \cup NoPrefixInputs \cup TwoExprInputs \cup LetNoAssignInputs
        \cup GroupInputs \cup IfInputs \cup IntInputs

----------------------------------------------------------------------------
(* The state machine *)

\* the parser fields take the values of the record p
SetParser(p) ==
    /\ l' = p.l
    /\ curToken' = p.curToken
    /\ peekToken' = p.peekToken
    /\ errors' = p.errors

\* no Program has been written out as text yet
NotYet == [set |-> FALSE, tokens |-> <<>>, text |-> <<>>]

Init ==
    /\ tokens \in Inputs
    /\ l = 1
    /\ curToken = ZeroToken
    /\ peekToken = ZeroToken
    /\ errors = <<>>
    /\ statements = <<>>
    /\ stmt = Nil
    /\ pc = "New"
    /\ first = NotYet

\* New: both slots of the window are filled
New ==
    /\ pc = "New"
    /\ SetParser(nextToken(nextToken(Parser)))
    /\ pc' = "ParseProgram"
    /\ UNCHANGED <<tokens, first, statements, stmt>>

\* ParseProgram: the loop ends at EOF
ParseProgramReturn ==
    /\ pc = "ParseProgram"
    /\ curToken.Type = "EOF"
    /\ pc' = "done"
    /\ UNCHANGED <<tokens, first, l, curToken, peekToken, errors, statements, stmt>>

\* parseStatement: the switch on the current token's type
parseStatement ==
    /\ pc = "ParseProgram"
    /\ curToken.Type # "EOF"
    /\ pc' = CASE curToken.Type = "LET" -> "parseLetStatement"
               [] curToken.Type = "RETURN" -> "parseReturnStatement"
               [] OTHER -> "parseExpressionStatement"
    /\ UNCHANGED <<tokens, first, l, curToken, peekToken, errors, statements, stmt>>

\* parseLetStatement, to the first expectPeek
parseLetIdent ==
    /\ pc = "parseLetStatement"
    /\ LET tok == curToken
           r == expectPeek(Parser, "IDENT")
       IN  /\ SetParser(r.p)
           /\ IF r.ok
              THEN /\ stmt' = LetStatement(tok, Nil, Nil)
                   /\ pc' = "parseLetAssign"
              ELSE /\ stmt' = TypedNil("*ast.LetStatement")
                   /\ pc' = "append"
    /\ UNCHANGED <<tokens, first, statements>>

\* parseLetStatement, the name and the second expectPeek
parseLetAssign ==
    /\ pc = "parseLetAssign"
    /\ LET name == Identifier(curToken)
           r == expectPeek(Parser, "ASSIGN")
       IN  /\ SetParser(r.p)
           /\ IF r.ok
              THEN /\ stmt' = [stmt EXCEPT !.Name = name]
                   /\ pc' = "parseLetSkip"
              ELSE /\ stmt' = TypedNil("*ast.LetStatement")
                   /\ pc' = "append"
    /\ UNCHANGED <<tokens, first, statements>>

\* the test reads peekTokenIs for curTokenIs, and the branch is taken on ;
parseLetSkipOnPeek ==
    /\ pc = "parseLetSkip"
    /\ SetParser(IF peekTokenIs(Parser, "SEMICOLON")
                 THEN nextToken(Parser) ELSE Parser)
    /\ pc' = "append"
    /\ UNCHANGED <<tokens, first, statements, stmt>>

\* parseLetStatement, the step past the token after =
parseLetSkip ==
    /\ pc = "parseLetSkip"
    /\ SetParser(IF ~curTokenIs(Parser, "SEMICOLON")
                 THEN nextToken(Parser) ELSE Parser)
    /\ pc' = "append"
    /\ UNCHANGED <<tokens, first, statements, stmt>>

\* the statement takes the token after the keyword
parseReturnEnterPeekToken ==
    /\ pc = "parseReturnStatement"
    /\ stmt' = ReturnStatement(peekToken, Nil)
    /\ SetParser(nextToken(Parser))
    /\ pc' = "parseReturnLoop"
    /\ UNCHANGED <<tokens, first, statements>>

\* parseReturnStatement, to the loop
parseReturnEnter ==
    /\ pc = "parseReturnStatement"
    /\ stmt' = ReturnStatement(curToken, Nil)
    /\ SetParser(nextToken(Parser))
    /\ pc' = "parseReturnLoop"
    /\ UNCHANGED <<tokens, first, statements>>

\* parseReturnStatement, one turn of the loop
parseReturnSkip ==
    /\ pc = "parseReturnLoop"
    /\ ~curTokenIs(Parser, "SEMICOLON")
    /\ SetParser(nextToken(Parser))
    /\ UNCHANGED <<tokens, first, statements, stmt, pc>>

\* parseReturnStatement, the loop has found ;
parseReturnExit ==
    /\ pc = "parseReturnLoop"
    /\ curTokenIs(Parser, "SEMICOLON")
    /\ pc' = "append"
    /\ UNCHANGED <<tokens, first, l, curToken, peekToken, errors, statements, stmt>>

parseExprStmt ==
    /\ pc = "parseExpressionStatement"
    /\ \E r \in {parseExpressionStatement(Parser)} :
          /\ SetParser(r.p)
          /\ stmt' = r.s
    /\ pc' = "append"
    /\ UNCHANGED <<tokens, first, statements>>

\* ParseProgram: the statement is kept unless it is the nil interface; the
\* window moves on
ParseProgramAppend ==
    /\ pc = "append"
    /\ statements' = IF stmt # Nil THEN Append(statements, stmt) ELSE statements
    /\ SetParser(nextToken(Parser))
    /\ stmt' = Nil
    /\ pc' = "ParseProgram"
    /\ UNCHANGED <<tokens, first>>

\* the caller of a parse that recorded no diagnostic writes the Program out
\* with String() and parses that text with a new lexer and a new parser
Reparse ==
    /\ pc = "done"
    /\ ~first.set
    /\ errors = <<>>
    /\ \E r \in {ProgramString(statements)} :
          /\ ~r.panic
          /\ first' = [set |-> TRUE, tokens |-> tokens, text |-> r.out]
          /\ tokens' = Lex(r.out)
    /\ l' = 1
    /\ curToken' = ZeroToken
    /\ peekToken' = ZeroToken
    /\ errors' = <<>>
    /\ statements' = <<>>
    /\ stmt' = Nil
    /\ pc' = "New"

Next ==
    \/ New
    \/ ParseProgramReturn
    \/ parseStatement
    \/ parseLetIdent
    \/ parseLetAssign
    \/ parseLetSkip
    \/ parseReturnEnter
    \/ parseReturnSkip
    \/ parseReturnExit
    \/ parseExprStmt
    \/ ParseProgramAppend
    \/ Reparse

Spec == Init /\ [][Next]_vars

\* the parser is sequential code: whatever step is next is taken.  A turn of
\* a loop that leaves every variable as it was is no progress: the code keeps
\* taking it and never returns.
FairSpec == Spec /\ WF_vars(Next)

----------------------------------------------------------------------------
(* Shapes of inputs and of results, used to state the properties *)

Types(toks) == [i \in 1..Len(toks) |-> toks[i].Type]

Done == pc = "done"

AtomTypes == {"IDENT", "INT", "TRUE", "FALSE"}

BinaryTypes == {"EQ", "NOT_EQ", "LT", "GT", "PLUS", "MINUS", "SLASH", "ASTERISK"}

ExprTypes == AtomTypes \cup BinaryTypes \cup {"BANG"}

\* n >= 1 statements  let <ident> = <int>  without terminator
IsLetNoSemiProgram(toks) ==
    /\ Len(toks) > 0
    /\ Len(toks) % 4 = 0
    /\ \A k \in 0..(Len(toks) \div 4 - 1) :
          SubSeq(Types(toks), 4 * k + 1, 4 * k + 4) = <<"LET", "IDENT", "ASSIGN", "INT">>

\* n >= 1 statements  return <expr>;  where <expr> is a non-empty run of
\* expression tokens
IsReturnSemiProgram(toks) ==
    /\ Len(toks) > 0
    /\ toks[Len(toks)].Type = "SEMICOLON"
    /\ \A i \in 1..Len(toks) :
          /\ toks[i].Type \in ExprTypes \cup {"RETURN", "SEMICOLON"}
          /\ toks[i].Type = "RETURN" <=> (i = 1 \/ toks[i - 1].Type = "SEMICOLON")
          /\ toks[i].Type = "SEMICOLON" => toks[i - 1].Type \in ExprTypes

NumberOf(toks, type) == Cardinality({i \in 1..Len(toks) : toks[i].Type = type})

\* the parser as parseLetStatement leaves it when it has read  let IDENT =
\* and stands on the first token of the value
AtLetValue ==
    [l |-> LexerAdvance(5), curToken |-> NextToken(4), peekToken |-> NextToken(5),
     errors |-> <<>>]

----------------------------------------------------------------------------
(* C1 - C5: the statement loop, let and return *)

\* C1: ParseProgram terminates on every finite token stream that ends with EOF,
\* inputs whose last statement has no trailing ; (return 5) included.
C1_ParseProgramTerminates == <>Done

\* C2: for every input  let <ident> = <int>;  ParseProgram returns exactly one
\* statement, a Let whose name is <ident>, and Errors() is empty.
C2_SingleLetWithSemicolon ==
    (Done /\ Types(tokens) = <<"LET", "IDENT", "ASSIGN", "INT", "SEMICOLON">>) =>
        /\ Len(statements) = 1
        /\ statements[1].node = "LetStatement"
        /\ statements[1].Name.Value = tokens[2].Literal
        /\ errors = <<>>

\* C3: n >= 1 statements  let <ident> = <int>  without terminating semicolon
\* give exactly n Let statements, named by the n identifiers in source order,
\* and no diagnostic.
C3_LetWithoutSemicolon ==
    (Done /\ IsLetNoSemiProgram(tokens)) =>
        /\ Len(statements) = Len(tokens) \div 4
        /\ \A i \in 1..Len(statements) :
              /\ statements[i].node = "LetStatement"
              /\ TokenLiteral(statements[i]) = <<"l", "e", "t">>
              /\ statements[i].Name.node = "Identifier"
              /\ statements[i].Name.Value = tokens[4 * (i - 1) + 2].Literal
              /\ TokenLiteral(statements[i].Name) = tokens[4 * (i - 1) + 2].Literal
        /\ errors = <<>>

C3_Witness ==
    /\ Done
    /\ IsLetNoSemiProgram(tokens)
    /\ Len(tokens) = 8
    /\ tokens[2] # tokens[6]
    /\ Len(statements) = 2

\* C4: when parseLetStatement succeeds on  let IDENT = E  the Let node's value
\* is E parsed at LOWEST, and all tokens of E belong to the let statement (no
\* statement follows it).
C4_LetValueIsParsed ==
    (Done /\ tokens \in LetExprInputs \cup LetSemiInputs \cup LetNoSemiInputs
          /\ NumberOf(tokens, "LET") = 1) =>
        /\ Len(statements) = 1
        /\ statements[1].node = "LetStatement"
        /\ statements[1].Value # Nil
        /\ statements[1].Value = parseExpression(AtLetValue, LOWEST).e

\* C5: n >= 1 statements  return <expr>;  give exactly n Return statements,
\* each with the keyword literal "return", and no diagnostic.
C5_ReturnStatements ==
    (Done /\ IsReturnSemiProgram(tokens)) =>
        /\ Len(statements) = NumberOf(tokens, "RETURN")
        /\ \A i \in 1..Len(statements) :
              /\ statements[i].node = "ReturnStatement"
              /\ TokenLiteral(statements[i]) = <<"r", "e", "t", "u", "r", "n">>
        /\ errors = <<>>

C5_Witness ==
    /\ Done
    /\ IsReturnSemiProgram(tokens)
    /\ Len(statements) = 3
    /\ \E i \in 1..Len(tokens) : tokens[i].Type = "PLUS"

----------------------------------------------------------------------------
(* C6 - C9: operator precedence and associativity *)

\* the input without its final ;
Body(toks) ==
    IF Len(toks) > 0 /\ toks[Len(toks)].Type = "SEMICOLON"
    THEN SubSeq(toks, 1, Len(toks) - 1)
    ELSE toks

\* operands separated by binary operators, at least one operator
IsChain(toks) ==
    /\ Len(toks) >= 3
    /\ Len(toks) % 2 = 1
    /\ \A i \in 1..Len(toks) :
          IF i % 2 = 1 THEN toks[i].Type \in AtomTypes
                       ELSE toks[i].Type \in BinaryTypes

\* the node of an operand token
AtomNode(tok) ==
    CASE tok.Type = "IDENT" -> Identifier(tok)
      [] tok.Type = "INT" -> IntegerLiteral(tok, ParseInt(tok.Literal).out)
      [] tok.Type \in {"TRUE", "FALSE"} -> Boolean(tok, tok.Type = "TRUE")

\* the levels of the binary operators, lowest first
RefLevel(type) ==
    CASE type \in {"EQ", "NOT_EQ"} -> 1
      [] type \in {"LT", "GT"} -> 2
      [] type \in {"PLUS", "MINUS"} -> 3
      [] type \in {"SLASH", "ASTERISK"} -> 4

RECURSIVE RefTree(_)
\* the reference grouping of a chain: it splits at the last operator of the
\* lowest level present
RefTree(toks) ==
    IF Len(toks) = 1 THEN AtomNode(toks[1])
    ELSE LET ops == {i \in 1..Len(toks) : i % 2 = 0}
             low == CHOOSE m \in 1..4 :
                        /\ \E i \in ops : RefLevel(toks[i].Type) = m
                        /\ \A i \in ops : RefLevel(toks[i].Type) >= m
             k == CHOOSE i \in ops :
                        /\ RefLevel(toks[i].Type) = low
                        /\ \A j \in ops : RefLevel(toks[j].Type) = low => j <= i
         IN  InfixExpression(toks[k], RefTree(SubSeq(toks, 1, k - 1)),
                             RefTree(SubSeq(toks, k + 1, Len(toks))))

\* C6: binary operators of one precedence level group to the left:
\* a op1 b op2 c  gives  Infix(Infix(a, op1, b), op2, c).
C6_EqualPrecedenceGroupsLeft ==
    (Done /\ IsChain(Body(tokens)) /\ Len(Body(tokens)) = 5
          /\ RefLevel(tokens[2].Type) = RefLevel(tokens[4].Type)) =>
        /\ Len(statements) = 1
        /\ statements[1].node = "ExpressionStatement"
        /\ LET e == statements[1].Expression
           IN  /\ e.node = "InfixExpression"
               /\ e.Operator = tokens[4].Literal
               /\ e.Right = AtomNode(tokens[5])
               /\ e.Left.node = "InfixExpression"
               /\ e.Left.Operator = tokens[2].Literal
               /\ e.Left.Left = AtomNode(tokens[1])
               /\ e.Left.Right = AtomNode(tokens[3])

C6_Witness ==
    /\ Done
    /\ Types(tokens) = <<"IDENT", "PLUS", "INT", "MINUS", "IDENT">>
    /\ Len(statements) = 1
    /\ statements[1].Expression.node = "InfixExpression"

\* C7: a binary operator of a higher level binds tighter than an adjacent one
\* of a lower level, EQUALS < LESSGREATER < SUM < PRODUCT: the tree of every
\* flat chain is the reference grouping.
C7_PrecedenceGrouping ==
    (Done /\ IsChain(Body(tokens))) =>
        statements = <<ExpressionStatement(tokens[1], RefTree(Body(tokens)))>>

\* a + b * c + d / e - f  has been parsed
C7_Witness ==
    /\ Done
    /\ Types(tokens) = <<"IDENT", "PLUS", "IDENT", "ASTERISK", "IDENT", "PLUS",
                         "IDENT", "SLASH", "IDENT", "MINUS", "IDENT">>
    /\ Len(statements) = 1
    /\ statements[1].Expression.Operator = <<"-">>
    /\ statements[1].Expression.Left.Right.Operator = <<"/">>

RECURSIVE PrefixOperandsTight(_)
\* no Prefix node of the tree has an Infix node as its operand
PrefixOperandsTight(e) ==
    CASE e.node = "PrefixExpression" ->
            e.Right.node # "InfixExpression" /\ PrefixOperandsTight(e.Right)
      [] e.node = "InfixExpression" ->
            PrefixOperandsTight(e.Left) /\ PrefixOperandsTight(e.Right)
      [] OTHER -> TRUE

\* C8: a unary ! or - binds tighter than every binary operator and nests to
\* the right:  -a * b  gives Infix(Prefix(-, a), *, b),  !-a  gives
\* Prefix(!, Prefix(-, a)), and no Prefix node has an Infix operand.
C8_PrefixBindsTighter ==
    /\ \A i \in 1..Len(statements) :
          statements[i].node = "ExpressionStatement" =>
              PrefixOperandsTight(statements[i].Expression)
    /\ (Done /\ Len(Body(tokens)) = 4
             /\ tokens[1].Type \in {"MINUS", "BANG"}
             /\ tokens[2].Type \in AtomTypes
             /\ tokens[3].Type \in BinaryTypes
             /\ tokens[4].Type \in AtomTypes) =>
          statements = <<ExpressionStatement(tokens[1],
              InfixExpression(tokens[3],
                  PrefixExpression(tokens[1], AtomNode(tokens[2])),
                  AtomNode(tokens[4])))>>
    /\ (Done /\ Len(Body(tokens)) = 3
             /\ tokens[1].Type \in {"MINUS", "BANG"}
             /\ tokens[2].Type \in {"MINUS", "BANG"}
             /\ tokens[3].Type \in AtomTypes) =>
          statements = <<ExpressionStatement(tokens[1],
              PrefixExpression(tokens[1],
                  PrefixExpression(tokens[2], AtomNode(tokens[3]))))>>

\* -a * b  has been parsed
C8_Witness ==
    /\ Done
    /\ Types(tokens) = <<"MINUS", "IDENT", "ASTERISK", "INT">>
    /\ Len(statements) = 1
    /\ statements[1].Expression.node = "InfixExpression"
    /\ statements[1].Expression.Left.node = "PrefixExpression"

IsInfixInput(toks) ==
    /\ Len(toks) = 4
    /\ toks[1].Type = "INT"
    /\ toks[2].Type \in BinaryTypes
    /\ toks[3].Type = "INT"
    /\ toks[4].Type = "SEMICOLON"

\* the one statement of  L op R;
InfixOfIntegers(toks) ==
    <<ExpressionStatement(toks[1],
        InfixExpression(toks[2],
            IntegerLiteral(toks[1], ParseInt(toks[1].Literal).out),
            IntegerLiteral(toks[3], ParseInt(toks[3].Literal).out)))>>

\* C9, as claimed: for each of the eight binary operators and all integer
\* literals L and R,  L op R;  gives one ExpressionStatement holding
\* Infix(IntegerLiteral(L), op, IntegerLiteral(R)), and Errors() is empty.
C9_InfixOfAllIntegerLiterals ==
    (Done /\ IsInfixInput(tokens)) =>
        /\ statements = InfixOfIntegers(tokens)
        /\ errors = <<>>

\* strconv.ParseInt(text, 0, 64) returns no error
Converts(text) == ParseInt(text).err = "nil"

\* C9, amended: the same for all integer literals L and R whose text converts
\* to a signed 64-bit integer, the literals' values being the converted
\* numbers; for any other L or R the tree has the same shape and Errors()
\* holds one diagnostic per literal that does not convert.
C9_InfixOfConvertibleLiterals ==
    (Done /\ IsInfixInput(tokens)) =>
        /\ statements = InfixOfIntegers(tokens)
        /\ Len(errors) = Cardinality({i \in {1, 3} : ~Converts(tokens[i].Literal)})
        /\ (Converts(tokens[1].Literal) /\ Converts(tokens[3].Literal)) =>
              errors = <<>>

\* 010 / 5;  has been parsed: the left literal is octal
C9_Witness ==
    /\ Done
    /\ IsInfixInput(tokens)
    /\ tokens[1].Literal = <<"0", "1", "0">>
    /\ tokens[2].Type = "SLASH"
    /\ tokens[3].Literal = <<"5">>
    /\ Len(statements) = 1
    /\ statements[1].Expression.Left.Value = <<8>>
    /\ errors = <<>>

----------------------------------------------------------------------------
(* C10: expectPeek *)

\* the kind parseLetStatement expects at each of its two expectPeek calls
ExpectedAt(at) == IF at = "parseLetStatement" THEN "IDENT" ELSE "ASSIGN"

\* what a step taken at one of the two expectPeek calls does
ExpectPeekStep ==
    pc \in {"parseLetStatement", "parseLetAssign"} =>
        IF peekToken.Type = ExpectedAt(pc)
        THEN /\ curToken' = peekToken
             /\ peekToken' = NextToken(l)
             /\ l' = LexerAdvance(l)
             /\ errors' = errors
             /\ pc' = IF pc = "parseLetStatement" THEN "parseLetAssign"
                                                 ELSE "parseLetSkip"
             /\ stmt'.node = "LetStatement"
        ELSE /\ curToken' = curToken
             /\ peekToken' = peekToken
             /\ l' = l
             /\ errors' = Append(errors, [kind |-> "peekError",
                                          expected |-> ExpectedAt(pc),
                                          got |-> peekToken.Type])
             /\ pc' = "append"
             /\ stmt' = TypedNil("*ast.LetStatement")

\* C10: expectPeek(kind) with the peek token of that kind advances the window
\* by exactly one token, returns true and appends no diagnostic; otherwise it
\* appends exactly one diagnostic naming the expected and the actual peek
\* kind, returns false and leaves current and peek unchanged.
C10_ExpectPeek == [][ExpectPeekStep]_vars

\* let x 5: the first expectPeek has advanced, the second has failed
C10_Witness ==
    /\ pc = "append"
    /\ stmt = TypedNil("*ast.LetStatement")
    /\ curToken.Type = "IDENT"
    /\ peekToken.Type = "INT"
    /\ errors = <<[kind |-> "peekError", expected |-> "ASSIGN", got |-> "INT"]>>

----------------------------------------------------------------------------
(* C11: a token without prefix routine *)

HasPrefixFn(tok) == tok.Type \in DOMAIN prefixParseFns

NoPrefixDiagnostic(tok) == [kind |-> "noPrefixParseFn", type |-> tok.Type]

\* the tokens from position i on
From(toks, i) == SubSeq(toks, i, Len(toks))

\* what follows the first token and the ; after it, if there is one
AfterLead(toks) ==
    IF Len(toks) > 1 /\ toks[2].Type = "SEMICOLON"
    THEN From(toks, 3) ELSE From(toks, 2)

\* one operand, or operands separated by binary operators
IsOperandOrChain(toks) ==
    \/ Len(toks) = 1 /\ toks[1].Type \in AtomTypes
    \/ IsChain(toks)

\* the step of an expression statement whose first token has no prefix
\* routine: one diagnostic, an absent expression, and the window is where it
\* was but for the ; that parseExpressionStatement steps onto
NoPrefixStep ==
    (pc = "parseExpressionStatement" /\ ~HasPrefixFn(curToken)) =>
        /\ errors' = Append(errors, NoPrefixDiagnostic(curToken))
        /\ stmt' = ExpressionStatement(curToken, Nil)
        /\ pc' = "append"
        /\ IF peekToken.Type = "SEMICOLON"
           THEN /\ curToken' = peekToken
                /\ peekToken' = NextToken(l)
                /\ l' = LexerAdvance(l)
           ELSE /\ curToken' = curToken
                /\ peekToken' = peekToken
                /\ l' = l

\* the parse goes on after the diagnostic: the expression that follows the
\* token is parsed as the next statement
NoPrefixLeadContinues ==
    (Done /\ Len(tokens) > 1 /\ ~HasPrefixFn(tokens[1])
          /\ tokens[1].Type \notin {"LET", "RETURN"}
          /\ IsOperandOrChain(Body(AfterLead(tokens)))) =>
        /\ statements =
              <<ExpressionStatement(tokens[1], Nil),
                ExpressionStatement(AfterLead(tokens)[1],
                                    RefTree(Body(AfterLead(tokens))))>>
        /\ errors = <<NoPrefixDiagnostic(tokens[1])>>

\* the same in an operand position:  a op  with nothing after the operator
NoPrefixOperand ==
    (Done /\ Len(tokens) = 2 /\ tokens[1].Type \in AtomTypes
          /\ tokens[2].Type \in BinaryTypes) =>
        /\ statements =
              <<ExpressionStatement(tokens[1],
                  InfixExpression(tokens[2], AtomNode(tokens[1]), Nil))>>
        /\ errors = <<NoPrefixDiagnostic(EOFToken)>>

\* C11: parseExpression entered on a token whose kind has no prefix routine
\* appends exactly one "no prefix parse function" diagnostic, returns an
\* absent expression without advancing, and ParseProgram goes on with the
\* tokens that follow until end-of-input.
C11_NoPrefixParseFn ==
    /\ [][NoPrefixStep]_vars
    /\ [](NoPrefixLeadContinues /\ NoPrefixOperand)

\* ( ; a + 1  has been parsed
C11_Witness ==
    /\ Done
    /\ Types(tokens) = <<"LPAREN", "SEMICOLON", "IDENT", "PLUS", "INT">>
    /\ Len(statements) = 2
    /\ statements[1].Expression = Nil
    /\ statements[2].Expression.node = "InfixExpression"
    /\ Len(errors) = 1

----------------------------------------------------------------------------
(* C12: a let statement without = *)

\* let <ident> <int>  or  let <ident> <int>;  and then the statements f
IsLetNoAssign(toks, f) ==
    \E n \in IdentNames, e \in {<<>>, <<SemicolonTok>>} :
        toks = <<LetTok, IdentTok(n), IntTok(<<"5">>)>> \o e \o f

\* the statements of the well-formed statements f
StatementsOf(f) ==
    CASE f = <<>> -> <<>>
      [] Types(f) = <<"LET", "IDENT", "ASSIGN", "INT">> ->
            <<LetStatement(f[1], Identifier(f[2]), Nil)>>
      [] Types(f) = <<"RETURN", "IDENT", "SEMICOLON">> ->
            <<ReturnStatement(f[1], Nil)>>
      [] Types(f) = <<"IDENT", "PLUS", "INT", "SEMICOLON">> ->
            <<ExpressionStatement(f[1], RefTree(Body(f)))>>
      [] Types(f) = <<"IDENT", "SEMICOLON", "RETURN", "INT", "SEMICOLON">> ->
            <<ExpressionStatement(f[1], AtomNode(f[1])),
              ReturnStatement(f[3], Nil)>>

\* the entries of the Program that are of type *ast.LetStatement
LetEntries ==
    {i \in 1..Len(statements) :
        \/ statements[i].node = "LetStatement"
        \/ statements[i] = TypedNil("*ast.LetStatement")}

\* C12: a let statement whose identifier is not followed by = makes
\* ParseProgram record at least one diagnostic, contributes no Let node to the
\* Program, and the well-formed statements after it are parsed and appended in
\* order.
C12_LetWithoutAssign ==
    \A f \in Followers :
        (Done /\ IsLetNoAssign(tokens, f)) =>
            /\ errors # <<>>
            /\ Cardinality(LetEntries) = NumberOf(f, "LET")
            /\ Len(statements) >= Len(StatementsOf(f))
            /\ From(statements, Len(statements) - Len(StatementsOf(f)) + 1)
                  = StatementsOf(f)

----------------------------------------------------------------------------
(* C13: grouped expressions *)

\* a parser without diagnostics standing on token i of the stream
AtToken(i) ==
    [l |-> i + 2, curToken |-> NextToken(i), peekToken |-> NextToken(i + 1),
     errors |-> <<>>]

\* ( E )  or  ( E );
IsGroup(toks) ==
    \E e \in SmallExprs, f \in {<<>>, <<SemicolonTok>>} :
        toks = <<LparenTok>> \o e \o <<RparenTok>> \o f

\* ( a op 1 ) * c
IsGroupTimes(toks) ==
    \E ops \in [1..1 -> BinaryOps] :
        toks = <<LparenTok>> \o Chain(ops) \o <<RparenTok, AsteriskTok, C>>

\* ( E  or  ( E;  : the closing parenthesis is missing
IsOpenGroup(toks) ==
    \E e \in SmallExprs, f \in {<<>>, <<SemicolonTok>>} :
        toks = <<LparenTok>> \o e \o f

\* C13: a ( in the lead position of an expression starts a grouped expression:
\* ( E ) gives the tree of E parsed at LOWEST with no diagnostic, grouping
\* overrides precedence ((a + b) * c gives Infix(Infix(a, +, b), *, c)), and a
\* missing ) records an expectation diagnostic.
C13_GroupedExpression ==
    /\ (Done /\ IsGroup(tokens)) =>
          /\ statements = <<ExpressionStatement(tokens[1],
                                parseExpression(AtToken(2), LOWEST).e)>>
          /\ errors = <<>>
    /\ (Done /\ IsGroupTimes(tokens)) =>
          /\ statements = <<ExpressionStatement(tokens[1],
                InfixExpression(tokens[6],
                    InfixExpression(tokens[3], AtomNode(tokens[2]),
                                    AtomNode(tokens[4])),
                    AtomNode(tokens[7])))>>
          /\ errors = <<>>
    /\ (Done /\ IsOpenGroup(tokens)) =>
          \E i \in 1..Len(errors) :
              errors[i].kind = "peekError" /\ errors[i].expected = "RPAREN"

----------------------------------------------------------------------------
(* C14: if expressions *)

\* the Block of  { <ident> }  or  { <ident>; }
BlockOf(b) ==
    BlockStatement(b[1], <<ExpressionStatement(b[2], AtomNode(b[2]))>>)

IfThen(c, b) == <<IfTok, LparenTok>> \o c \o <<RparenTok>> \o b

\* C14: if (C) { S1 } gives an If node with condition C, consequence block S1
\* and an absent alternative; if (C) { S1 } else { S2 } gives an If node whose
\* alternative is the block S2: the alternative is present exactly when the
\* token after the consequence's closing brace is else.
C14_IfExpression ==
    \A c \in Conditions, b \in Blocks :
        /\ (Done /\ tokens = IfThen(c, b)) =>
              statements = <<ExpressionStatement(tokens[1],
                  IfExpression(tokens[1], RefTree(c), BlockOf(b), Nil))>>
        /\ \A a \in Blocks :
              (Done /\ tokens = IfThen(c, b) \o <<ElseTok>> \o a) =>
                  statements = <<ExpressionStatement(tokens[1],
                      IfExpression(tokens[1], RefTree(c), BlockOf(b),
                                   BlockOf(a)))>>

----------------------------------------------------------------------------
(* C15: parsing the canonical text again *)

\* an expression of identifiers, integer literals, prefix and binary
\* operators, with or without a final ;
IsExpressionInput(toks) ==
    toks \in ChainInputs \cup PrefixChainInputs \cup SmallExprs \cup TestInputs
        /\ NumberOf(Body(toks), "SEMICOLON") = 0

\* C15: for every expression built from identifiers, integer literals, prefix
\* and infix operators, with s = String(ParseProgram(input)), ParseProgram(s)
\* records no diagnostic and String(ParseProgram(s)) = s.
C15_ReconstructionFixedPoint ==
    (Done /\ first.set /\ IsExpressionInput(first.tokens)) =>
        /\ errors = <<>>
        /\ ProgramString(statements) = Text(first.text)

----------------------------------------------------------------------------
(* C16: integer literals *)

\* the numbers written by the literals of IntTexts that fit 64 bits
Number(text) ==
    CASE text = <<"5">> -> <<5>>
      [] text = <<"1", "0">> -> <<1, 0>>
      [] text = <<"0", "1", "0">> -> <<8>>

\* C16: when the text of an INT token cannot be converted to a signed 64-bit
\* integer, parseIntegerLiteral appends exactly one diagnostic and returns an
\* IntegerLiteral node whose value is the default 0; when the conversion
\* succeeds it appends no diagnostic and the value is the converted number.
C16_IntegerLiteralConversion ==
    (Done /\ tokens \in IntInputs) =>
        /\ Len(statements) = 1
        /\ statements[1].Expression.node = "IntegerLiteral"
        /\ statements[1].Expression.Token = tokens[1]
        /\ IF Converts(tokens[1].Literal)
           THEN /\ errors = <<>>
                /\ statements[1].Expression.Value = Number(tokens[1].Literal)
           ELSE /\ errors = <<[kind |-> "parseInt",
                               literal |-> tokens[1].Literal]>>
                /\ statements[1].Expression.Value = <<0>>

----------------------------------------------------------------------------
(* C17: requests to the lexer after EOF *)

\* the number of tokens the lexer has delivered (counted up to its bound)
Delivered == l - 1

\* C17: once the lexer has delivered EOF, neither New nor ParseProgram nor any
\* routine they call requests another token: the lexer delivers the tokens
\* of the input and EOF once, and nothing after.
C17_NoRequestPastEOF == Delivered <= Len(tokens) + 1

----------------------------------------------------------------------------
(* C18: where an expression statement ends *)

\* the tree of a short expression
ExprTree(e) ==
    CASE IsOperandOrChain(e) -> RefTree(e)
      [] Types(e) = <<"BANG", "IDENT">> ->
            PrefixExpression(e[1], AtomNode(e[2]))
      [] Types(e) = <<"MINUS", "INT", "ASTERISK", "INT">> ->
            InfixExpression(e[3], PrefixExpression(e[1], AtomNode(e[2])),
                            AtomNode(e[4]))

StatementOfExpr(e) == ExpressionStatement(e[1], ExprTree(e))

\* E1 T E2 parses to the statement of E1, what T gives, the statement of E2
TwoStatements ==
    Done =>
        \A e1 \in SmallExprs, e2 \in SmallExprs :
            /\ tokens = e1 \o <<SemicolonTok>> \o e2 =>
                  /\ statements = <<StatementOfExpr(e1), StatementOfExpr(e2)>>
                  /\ errors = <<>>
            /\ \A t \in {RparenTok, AssignTok} :
                  tokens = e1 \o <<t>> \o e2 =>
                      /\ statements = <<StatementOfExpr(e1),
                                        ExpressionStatement(t, Nil),
                                        StatementOfExpr(e2)>>
                      /\ errors = <<NoPrefixDiagnostic(t)>>
            /\ (tokens = e1 \o e2 /\ e2[1].Type \notin BinaryTypes) =>
                  /\ statements = <<StatementOfExpr(e1), StatementOfExpr(e2)>>
                  /\ errors = <<>>

\* 3 + 4; -5 * 5  reconstructs as  (3 + 4)((-5) * 5)
TwoStatementsText ==
    (Done /\ Types(tokens) = <<"INT", "PLUS", "INT", "SEMICOLON",
                               "MINUS", "INT", "ASTERISK", "INT">>
          /\ tokens[1].Literal = <<"3">>) =>
        ProgramString(statements) =
            Text(<<"(", "3", " ", "+", " ", "4", ")",
                   "(", "(", "-", "5", ")", " ", "*", " ", "5", ")">>)

\* the first statement of  E1; E2  ends with the window on the ;
ExpressionStatementStep ==
    (pc = "parseExpressionStatement" /\ Delivered = 2) =>
        \A e1 \in SmallExprs, e2 \in SmallExprs :
            tokens = e1 \o <<SemicolonTok>> \o e2 =>
                /\ curToken' = SemicolonTok
                /\ peekToken' = e2[1]
                /\ Delivered' = Len(e1) + 2
                /\ stmt' = StatementOfExpr(e1)

\* C18: the infix loop of parseExpression never consumes a statement
\* terminator or a token of LOWEST precedence: an expression statement ends
\* at the first ; or token absent from the precedence table, E1; E2 parses to
\* two independent expression statements (3 + 4; -5 * 5 reconstructs as
\* (3 + 4)((-5) * 5)), and the ; is consumed by parseExpressionStatement only.
C18_ExpressionStatementEnds ==
    /\ [][ExpressionStatementStep]_vars
    /\ [](TwoStatements /\ TwoStatementsText)

\* 3 + 4; -5 * 5  has been parsed
C18_Witness ==
    /\ Done
    /\ ~first.set
    /\ Types(tokens) = <<"INT", "PLUS", "INT", "SEMICOLON",
                         "MINUS", "INT", "ASTERISK", "INT">>
    /\ Len(statements) = 2
    /\ statements[1].Expression.Operator = <<"+">>
    /\ statements[2].Expression.Operator = <<"*">>
    /\ errors = <<>>

----------------------------------------------------------------------------
(* C19: the two-token window *)

\* the token at position i of what the lexer delivers: the input, then EOF
At(i) == IF i <= Len(tokens) THEN tokens[i] ELSE EOFToken

\* after New the window holds the last two tokens delivered
WindowInv ==
    pc # "New" =>
        /\ Delivered >= 2
        /\ curToken = At(Delivered - 1)
        /\ peekToken = At(Delivered)

\* New fills the window with the first two tokens; the steps that advance
\* once move it by one token; no step moves it back
WindowStep ==
    /\ pc = "New" => (curToken' = At(1) /\ peekToken' = At(2))
    /\ pc \in {"append", "parseReturnStatement"} =>
          /\ curToken' = peekToken
          /\ peekToken' = At(Delivered + 1)
          /\ Delivered' = Delivered + 1 \/ Delivered' = Delivered
          /\ Delivered' = Delivered => curToken'.Type = "EOF"
    /\ pc \notin {"New", "done"} => Delivered' >= Delivered

\* C19: after New, current is the first token of the stream and peek the
\* second; in every state afterwards peek is the token delivered right after
\* current, and every advance moves the window forward by exactly one token
\* (no token is skipped, duplicated or revisited).
C19_TwoTokenWindow ==
    /\ [][WindowStep]_vars
    /\ []WindowInv

\* three advances after New, in the middle of the stream
C19_Witness ==
    /\ pc = "ParseProgram"
    /\ Len(tokens) >= 6
    /\ Delivered = 5
    /\ curToken = tokens[4]
    /\ peekToken = tokens[5]
    /\ curToken # peekToken

----------------------------------------------------------------------------
(* C20: String() on the Program returned *)

RECURSIVE OperandsPresent(_)
\* no Prefix or Infix node of the tree has an absent operand
OperandsPresent(e) ==
    CASE e.node = "PrefixExpression" ->
            e.Right # Nil /\ OperandsPresent(e.Right)
      [] e.node = "InfixExpression" ->
            /\ e.Left # Nil /\ OperandsPresent(e.Left)
            /\ e.Right # Nil /\ OperandsPresent(e.Right)
      [] OTHER -> TRUE

\* C20: for every Program returned by ParseProgram, also from malformed input
\* with diagnostics, String() completes and returns text: no Prefix or Infix
\* node of a returned tree has an absent operand that String() dereferences
\* (inputs -; and a +).
C20_StringIsTotal ==
    Done =>
        /\ ~ProgramString(statements).panic
        /\ \A i \in 1..Len(statements) :
              statements[i].node = "ExpressionStatement" =>
                  OperandsPresent(statements[i].Expression)

----------------------------------------------------------------------------
(* C21: the diagnostics list *)

\* a is the beginning of b
IsPrefixOf(a, b) == Len(a) <= Len(b) /\ SubSeq(b, 1, Len(a)) = a

\* an absent statement: nil, of whatever type
IsAbsent(s) == s.node = "nil"

\* what a step does to the diagnostics and to a statement dropped: the
\* diagnostics recorded stay as they are, the step in which parseStatement
\* returns an absent statement has recorded a diagnostic, and ParseProgram
\* appends nothing for it
DiagnosticsStep ==
    /\ IsPrefixOf(errors, errors')
    /\ (pc # "append" /\ pc' = "append" /\ IsAbsent(stmt')) =>
          Len(errors') > Len(errors)
    /\ (pc = "append" /\ IsAbsent(stmt)) => statements' = statements

\* C21: the diagnostics list is append-only and accounts for every dropped
\* statement: no parser operation removes or rewrites a recorded diagnostic,
\* and whenever parseStatement returns an absent statement, so that nothing
\* is appended to the Program for that position, at least one new diagnostic
\* has been appended during that call.
C21_DiagnosticsAccountForDrops == [][DiagnosticsStep]_vars

====
